---- MODULE Spec2Model ----
(***************************************************************************)
(* Model of the ADS mock PLC (ads_mock_plc.py): the AMS frame parsing and  *)
(* the opcode dispatch of MockPLC.handle_command at byte level, and the    *)
(* per-connection loop of MockPLC.handle_client with its two suspension    *)
(* points (reader.read and writer.drain); and of the FINS mock PLC         *)
(* (fins_mock_plc.py): its word memory and MockPLC.handle_command.         *)
(*                                                                         *)
(* Bytes are integers 0..255, byte strings are sequences of bytes.  Field   *)
(* values are unbounded Python integers in the code; the frames explored   *)
(* here carry field values below 2^31.                                     *)
(***************************************************************************)
EXTENDS Integers, Sequences, FiniteSets, TLC

VARIABLES
    symbols,      \* self.symbols: name -> [value, type]
    handles,      \* self.handles: handle id -> symbol name
    next_handle,  \* self.next_handle
    byteorder,    \* byte order of the host the emulator runs on (native struct format)
    pc,           \* per connection: where its handle_client task stands
    rbuf,         \* per connection: bytes received and not yet returned by reader.read
    req,          \* per connection: the data the last reader.read returned
    wbuf,         \* per connection: the response handed to writer.write, not yet drained
    closedBy,     \* per connection: which path of handle_client closed the writer
    prev,         \* per connection: the kind of the read handled before the current one
    issued,       \* handle ids sent in Get-Handle replies, in dispatch order, with the connection
    nreads,       \* number of chunks delivered so far (bounds the exploration)
    memory,       \* FINS emulator, self.memory: area code -> (address -> word)
    fins_log      \* FINS emulator: the calls of handle_command so far, data and outcome

finsVars == <<memory, fins_log>>

vars == <<symbols, handles, next_handle, byteorder, pc, rbuf, req, wbuf,
          closedBy, prev, issued, nreads, memory, fins_log>>

(***************************************************************************)
(* Bounds of the exploration: the number of chunks the peers send in all,  *)
(* and two connections, which interact through the device state only.      *)
(***************************************************************************)
MaxReads == 2

\* the number of FINS requests handled in a run
MaxFinsOps == 3

Conns == {"c1", "c2"}

(***************************************************************************)
(* Byte-string helpers: Python slicing and the struct module.              *)
(***************************************************************************)
Min(a, b) == IF a < b THEN a ELSE b

Max(a, b) == IF a < b THEN b ELSE a

\* bs[a:b] with 0-based, end-exclusive, clamped indices
Slice(bs, a, b) == SubSeq(bs, a + 1, Min(b, Len(bs)))

\* bs[a:]
SliceFrom(bs, a) == SubSeq(bs, a + 1, Len(bs))

\* b'\x00' * n
Zeros(n) == [i \in 1..n |-> 0]

\* struct.pack accepts v for an unsigned field of n bytes
Fits(v, n) == v >= 0 /\ v \div (256 ^ (n - 1)) < 256

\* struct.pack('<H', v) / struct.pack('<I', v): little-endian, n bytes
PackLE(v, n) == [i \in 1..n |-> (v \div (256 ^ (i - 1))) % 256]

\* big-endian packing of n bytes
PackBE(v, n) == [i \in 1..n |-> (v \div (256 ^ (n - i))) % 256]

\* struct.pack with a native-order field ('H' with no order prefix)
PackNative(v, n, order) == IF order = "little" THEN PackLE(v, n) ELSE PackBE(v, n)

\* struct.unpack('<H' / '<I', bs)[0] for a byte string of exactly the field width
RECURSIVE UnpackLE(_)
UnpackLE(bs) == IF Len(bs) = 0 THEN 0 ELSE bs[1] + 256 * UnpackLE(Tail(bs))

\* struct.unpack raises struct.error unless the buffer has exactly n bytes
CanUnpack(bs, n) == Len(bs) = n

\* bytes.decode('ascii') raises UnicodeDecodeError on any byte >= 128
IsAscii(bs) == \A i \in 1..Len(bs) : bs[i] < 128

\* str.rstrip('\x00'): every trailing NUL is removed
RECURSIVE RStripNul(_)
RStripNul(s) ==
    IF Len(s) > 0 /\ s[Len(s)] = 0 THEN RStripNul(SubSeq(s, 1, Len(s) - 1)) ELSE s

\* bytes.ljust(n, b'\x00')
LJust(bs, n) == bs \o Zeros(Max(0, n - Len(bs)))

(***************************************************************************)
(* MockPLC.__init__                                                        *)
(***************************************************************************)
NameConveyorSpeed ==  \* "MAIN.ConveyorSpeed"
    <<77, 65, 73, 78, 46, 67, 111, 110, 118, 101, 121, 111, 114, 83, 112, 101, 101, 100>>

NameMotorRun ==       \* "MAIN.Motor.bRun"
    <<77, 65, 73, 78, 46, 77, 111, 116, 111, 114, 46, 98, 82, 117, 110>>

NameSensorsTemp ==    \* "MAIN.Sensors.rTemp"
    <<77, 65, 73, 78, 46, 83, 101, 110, 115, 111, 114, 115, 46, 114, 84, 101, 109, 112>>

SeedNames == {NameConveyorSpeed, NameMotorRun, NameSensorsTemp}

SeedSymbols ==
    [n \in SeedNames |->
        IF n = NameConveyorSpeed THEN [value |-> "0", type |-> "INT"]
        ELSE IF n = NameMotorRun THEN [value |-> "0", type |-> "BOOL"]
        ELSE [value |-> "25.5", type |-> "REAL"]]

HandleBase == 1000

NoHandles == [h \in {} |-> <<>>]

(***************************************************************************)
(* MockPLC.handle_command                                                  *)
(*                                                                         *)
(* The device state read and written by a call is the record               *)
(* [symbols, handles, next_handle]; a call yields                          *)
(* [raised, response, st]: whether an exception left the call, the bytes   *)
(* returned otherwise, and the device state the call leaves behind.        *)
(***************************************************************************)
HeaderLen == 32

\* the parsed AMS header (lines 35-44) and the payload (line 46)
ParseHeader(data) ==
    [target_net_id |-> Slice(data, 0, 6),
     target_port   |-> UnpackLE(Slice(data, 6, 8)),
     source_net_id |-> Slice(data, 8, 14),
     source_port   |-> UnpackLE(Slice(data, 14, 16)),
     command_id    |-> UnpackLE(Slice(data, 16, 18)),
     state_flags   |-> UnpackLE(Slice(data, 18, 20)),
     data_len      |-> UnpackLE(Slice(data, 20, 24)),
     error_code    |-> UnpackLE(Slice(data, 24, 28)),
     invoke_id     |-> UnpackLE(Slice(data, 28, 32)),
     payload       |-> SliceFrom(data, 32)]

\* outcome of a branch: resp_data built, device state left behind
Done(resp_data, st) == [raised |-> FALSE, resp_data |-> resp_data, st |-> st]

\* an exception leaves the call; st is the device state at the raise
Raise(st) == [raised |-> TRUE, resp_data |-> <<>>, st |-> st]

\* mutant: the response bit is added instead of or-ed in
OrBit0Added(x) == (x + 1) % 65536

\* x | 0x0001 on a 16-bit value
OrBit0(x) == IF x % 2 = 1 THEN x ELSE x + 1

\* mutant: the version packed as three single bytes
VersionBytesThree(order) == <<3, 1, 4>>

\* lines 63-68: ADS Read Device Info
VersionBytes(order) == <<3, 1>> \o PackNative(4024, 2, order)

DeviceName == <<84, 119, 105, 110, 67, 65, 84, 32, 51, 32, 80, 76, 67>>  \* "TwinCAT 3 PLC"

CmdDeviceInfo(payload, st, order) ==
    Done(PackLE(0, 4) \o VersionBytes(order) \o LJust(DeviceName, 16), st)

\* mutant: a read by handle (index group 0xF005) of a handle that is not allocated
\* is answered with the symbol-not-found result
CmdReadByHandle(payload, st) ==
    IF ~ (CanUnpack(Slice(payload, 0, 4), 4) /\ CanUnpack(Slice(payload, 4, 8), 4)
          /\ CanUnpack(Slice(payload, 8, 12), 4))
    THEN Raise(st)
    ELSE LET read_len == UnpackLE(Slice(payload, 8, 12))
         IN  IF /\ UnpackLE(Slice(payload, 0, 4)) = 61445
                /\ UnpackLE(Slice(payload, 4, 8)) \notin DOMAIN st.handles
             THEN Done(PackLE(1808, 4) \o PackLE(0, 4), st)
             ELSE Done(PackLE(0, 4) \o PackLE(read_len, 4) \o Zeros(read_len), st)

\* lines 71-80: ADS Read
CmdRead(payload, st) ==
    IF ~ (CanUnpack(Slice(payload, 0, 4), 4) /\ CanUnpack(Slice(payload, 4, 8), 4)
          /\ CanUnpack(Slice(payload, 8, 12), 4))
    THEN Raise(st)
    ELSE LET read_len == UnpackLE(Slice(payload, 8, 12))
         IN  Done(PackLE(0, 4) \o PackLE(read_len, 4) \o Zeros(read_len), st)

\* mutant: a write by handle (index group 0xF005) to a handle that is not allocated
\* is refused with result 0x710
CmdWriteByHandleChecked(payload, st) ==
    IF ~ (CanUnpack(Slice(payload, 0, 4), 4) /\ CanUnpack(Slice(payload, 4, 8), 4)
          /\ CanUnpack(Slice(payload, 8, 12), 4))
    THEN Raise(st)
    ELSE IF /\ UnpackLE(Slice(payload, 0, 4)) = 61445
            /\ UnpackLE(Slice(payload, 4, 8)) \notin DOMAIN st.handles
         THEN Done(PackLE(1808, 4), st)
         ELSE Done(PackLE(0, 4), st)

\* mutant: a write to index group 0xF006 releases the handle named by its data
CmdWriteReleases(payload, st) ==
    IF ~ (CanUnpack(Slice(payload, 0, 4), 4) /\ CanUnpack(Slice(payload, 4, 8), 4)
          /\ CanUnpack(Slice(payload, 8, 12), 4))
    THEN Raise(st)
    ELSE IF UnpackLE(Slice(payload, 0, 4)) = 61446 /\ CanUnpack(Slice(payload, 12, 16), 4)
         THEN Done(PackLE(0, 4),
                   [st EXCEPT !.handles =
                       [h \in (DOMAIN st.handles) \ {UnpackLE(Slice(payload, 12, 16))} |->
                           st.handles[h]]])
         ELSE Done(PackLE(0, 4), st)

\* lines 83-91: ADS Write
CmdWrite(payload, st) ==
    IF ~ (CanUnpack(Slice(payload, 0, 4), 4) /\ CanUnpack(Slice(payload, 4, 8), 4)
          /\ CanUnpack(Slice(payload, 8, 12), 4))
    THEN Raise(st)
    ELSE Done(PackLE(0, 4), st)

\* mutant: the state reported follows the motor symbol, 6 (stop) while it is off
CmdReadStateFromMotor(payload, st) ==
    Done(PackLE(0, 4) \o
         PackLE(IF st.symbols[NameMotorRun].value = "0" THEN 6 ELSE 5, 2) \o
         PackLE(0, 2), st)

\* lines 94-98: ADS Read State
CmdReadState(payload, st) == Done(PackLE(0, 4) \o PackLE(5, 2) \o PackLE(0, 2), st)

\* mutant: the control request stores the new state into a symbol
CmdWriteControlStoring(payload, st) ==
    IF ~ (CanUnpack(Slice(payload, 0, 2), 2) /\ CanUnpack(Slice(payload, 2, 4), 2))
    THEN Raise(st)
    ELSE Done(PackLE(0, 4), [st EXCEPT !.symbols[NameMotorRun].value = "1"])

\* lines 101-105: ADS Write Control
CmdWriteControl(payload, st) ==
    IF ~ (CanUnpack(Slice(payload, 0, 2), 2) /\ CanUnpack(Slice(payload, 2, 4), 2))
    THEN Raise(st)
    ELSE Done(PackLE(0, 4), st)

\* mutant: the counter is incremented before it is read
NewHandlePreIncrement(st) == st.next_handle + 1

\* line 124: handle = self.next_handle
NewHandle(st) == st.next_handle

\* mutant: a name keeps one handle only, the newest
BindReplacing(hs, handle, symbol_name) ==
    [h \in {k \in DOMAIN hs : hs[k] # symbol_name} \cup {handle} |->
        IF h = handle THEN symbol_name ELSE hs[h]]

\* line 125: self.handles[handle] = symbol_name
Bind(hs, handle, symbol_name) ==
    [h \in (DOMAIN hs) \cup {handle} |-> IF h = handle THEN symbol_name ELSE hs[h]]

\* mutant: the counter counts down
BumpDown(n) == n - 1

\* mutant: the increment is missing
BumpForgotten(n) == n

\* line 126: self.next_handle += 1
Bump(n) == n + 1

\* mutant: the result code alone, without the length field
SymbolNotFoundBare == PackLE(1808, 4)

\* lines 130-131: symbol not found
SymbolNotFound == PackLE(1808, 4) \o PackLE(0, 4)   \* 0x710, length 0

\* lines 120-131: Get Handle by Name
GetHandleByName(write_data, st) ==
    IF ~ IsAscii(write_data) THEN Raise(st)
    ELSE LET symbol_name == RStripNul(write_data)
         IN  IF symbol_name \in DOMAIN st.symbols
             THEN LET handle == NewHandle(st)
                      st2 == [st EXCEPT !.handles = Bind(st.handles, handle, symbol_name),
                                        !.next_handle = Bump(st.next_handle)]
                  IN  IF Fits(handle, 4)
                      THEN Done(PackLE(0, 4) \o PackLE(4, 4) \o PackLE(handle, 4), st2)
                      ELSE Raise(st2)
             ELSE Done(SymbolNotFound, st)

\* mutant: the length is declared and the buffer is left out
ReadWritePassthroughNoBuffer(read_len, st) ==
    Done(PackLE(0, 4) \o PackLE(read_len, 4), st)

\* lines 136-138: any other index group
ReadWritePassthrough(read_len, st) ==
    Done(PackLE(0, 4) \o PackLE(read_len, 4) \o Zeros(read_len), st)

\* mutant: the write data is cut to the declared write-length
CmdReadWriteCutToWriteLen(payload, st) ==
    IF ~ (CanUnpack(Slice(payload, 0, 4), 4) /\ CanUnpack(Slice(payload, 4, 8), 4)
          /\ CanUnpack(Slice(payload, 8, 12), 4) /\ CanUnpack(Slice(payload, 12, 16), 4))
    THEN Raise(st)
    ELSE LET index_group == UnpackLE(Slice(payload, 0, 4))
             read_len    == UnpackLE(Slice(payload, 8, 12))
             write_len   == UnpackLE(Slice(payload, 12, 16))
             write_data  == Slice(payload, 16, 16 + write_len)
         IN  IF index_group = 61443
             THEN GetHandleByName(write_data, st)
             ELSE ReadWritePassthrough(read_len, st)

\* lines 108-138: ADS Read Write
CmdReadWrite(payload, st) ==
    IF ~ (CanUnpack(Slice(payload, 0, 4), 4) /\ CanUnpack(Slice(payload, 4, 8), 4)
          /\ CanUnpack(Slice(payload, 8, 12), 4) /\ CanUnpack(Slice(payload, 12, 16), 4))
    THEN Raise(st)
    ELSE LET index_group == UnpackLE(Slice(payload, 0, 4))
             read_len    == UnpackLE(Slice(payload, 8, 12))
             write_data  == SliceFrom(payload, 16)
         IN  IF index_group = 61443    \* 0xF003
             THEN GetHandleByName(write_data, st)
             ELSE ReadWritePassthrough(read_len, st)

\* mutant: an unknown command is refused with "service not supported" (0x701)
CmdUnknownRefused(payload, st) == Done(PackLE(1793, 4), st)

\* lines 140-142: unknown command
CmdUnknown(payload, st) == Done(PackLE(0, 4), st)

\* lines 62-142: the opcode dispatch
Dispatch(command_id, payload, st, order) ==
    CASE command_id = 1 -> CmdDeviceInfo(payload, st, order)
      [] command_id = 2 -> CmdRead(payload, st)
      [] command_id = 3 -> CmdWrite(payload, st)
      [] command_id = 4 -> CmdReadState(payload, st)
      [] command_id = 5 -> CmdWriteControl(payload, st)
      [] command_id = 9 -> CmdReadWrite(payload, st)
      [] OTHER          -> CmdUnknown(payload, st)

\* mutant: the invoke id taken from the wrong header field
RespFieldsWrongInvokeId(h) ==
    [target_net_id |-> h.source_net_id,
     target_port   |-> h.source_port,
     source_net_id |-> h.target_net_id,
     source_port   |-> h.target_port,
     command_id    |-> h.command_id,
     state_flags   |-> OrBit0(h.state_flags),
     error_code    |-> 0,
     invoke_id     |-> h.error_code]

\* mutant: the endpoints copied without the swap
RespFieldsNoSwap(h) ==
    [target_net_id |-> h.target_net_id,
     target_port   |-> h.target_port,
     source_net_id |-> h.source_net_id,
     source_port   |-> h.source_port,
     command_id    |-> h.command_id,
     state_flags   |-> OrBit0(h.state_flags),
     error_code    |-> 0,
     invoke_id     |-> h.invoke_id]

\* mutant: the request's error code is copied into the reply
RespFieldsEchoingError(h) ==
    [target_net_id |-> h.source_net_id,
     target_port   |-> h.source_port,
     source_net_id |-> h.target_net_id,
     source_port   |-> h.target_port,
     command_id    |-> h.command_id,
     state_flags   |-> OrBit0(h.state_flags),
     error_code    |-> h.error_code,
     invoke_id     |-> h.invoke_id]

\* lines 50-58: the reply's endpoints, state flags and error code
RespFields(h) ==
    [target_net_id |-> h.source_net_id,
     target_port   |-> h.source_port,
     source_net_id |-> h.target_net_id,
     source_port   |-> h.target_port,
     command_id    |-> h.command_id,
     state_flags   |-> OrBit0(h.state_flags),
     error_code    |-> 0,
     invoke_id     |-> h.invoke_id]

\* mutant: the length field counts the header as well
RespHeaderTotalLen(f, resp_data) ==
    f.target_net_id \o PackLE(f.target_port, 2) \o
    f.source_net_id \o PackLE(f.source_port, 2) \o
    PackLE(f.command_id, 2) \o
    PackLE(f.state_flags, 2) \o
    PackLE(HeaderLen + Len(resp_data), 4) \o
    PackLE(f.error_code, 4) \o
    PackLE(f.invoke_id, 4)

\* mutant: the ports packed in network byte order ('>H')
RespHeaderBigEndianPorts(f, resp_data) ==
    f.target_net_id \o PackBE(f.target_port, 2) \o
    f.source_net_id \o PackBE(f.source_port, 2) \o
    PackLE(f.command_id, 2) \o
    PackLE(f.state_flags, 2) \o
    PackLE(Len(resp_data), 4) \o
    PackLE(f.error_code, 4) \o
    PackLE(f.invoke_id, 4)

\* lines 145-151: the response header
RespHeader(f, resp_data) ==
    f.target_net_id \o PackLE(f.target_port, 2) \o
    f.source_net_id \o PackLE(f.source_port, 2) \o
    PackLE(f.command_id, 2) \o
    PackLE(f.state_flags, 2) \o
    PackLE(Len(resp_data), 4) \o
    PackLE(f.error_code, 4) \o
    PackLE(f.invoke_id, 4)

\* mutant: a buffer shorter than a header raises
TooShortRaises(st) == [raised |-> TRUE, response |-> <<>>, st |-> st]

\* lines 28-29: less than a header
TooShort(st) == [raised |-> FALSE, response |-> <<>>, st |-> st]

\* lines 25-153
handle_command(data, st, order) ==
    IF Len(data) < HeaderLen
    THEN TooShort(st)
    ELSE LET h == ParseHeader(data)
             r == Dispatch(h.command_id, h.payload, st, order)
         IN  IF r.raised
             THEN [raised |-> TRUE, response |-> <<>>, st |-> r.st]
             ELSE [raised |-> FALSE,
                   response |-> RespHeader(RespFields(h), r.resp_data) \o r.resp_data,
                   st |-> r.st]

(***************************************************************************)
(* Client side: the frames a peer puts on the wire, in the layout of the   *)
(* header comment (lines 32-33), and the chunks a reader.read may deliver. *)
(***************************************************************************)
PeerA ==
    [tnet |-> <<192, 168, 0, 1, 1, 1>>, tport |-> 851,
     snet |-> <<10, 0, 0, 2, 1, 1>>,    sport |-> 30000,
     flags |-> 4, err |-> 0, inv |-> 1]

PeerB ==
    [tnet |-> <<5, 6, 7, 8, 1, 1>>,     tport |-> 801,
     snet |-> <<172, 16, 0, 9, 1, 1>>,  sport |-> 65535,
     flags |-> 32773,                   \* 0x8005: response bit already set
     err |-> 305419896,                 \* 0x12345678
     inv |-> 2125315823]                \* 0x7EADBEEF

\* a frame whose length field declares `declared` payload bytes
FrameDeclaring(p, cmd, declared, payload) ==
    p.tnet \o PackLE(p.tport, 2) \o p.snet \o PackLE(p.sport, 2) \o
    PackLE(cmd, 2) \o PackLE(p.flags, 2) \o PackLE(declared, 4) \o
    PackLE(p.err, 4) \o PackLE(p.inv, 4) \o payload

Frame(p, cmd, payload) == FrameDeclaring(p, cmd, Len(payload), payload)

ReadPayload(group, offset, length) ==
    PackLE(group, 4) \o PackLE(offset, 4) \o PackLE(length, 4)

WritePayload(group, offset, bytes) ==
    PackLE(group, 4) \o PackLE(offset, 4) \o PackLE(Len(bytes), 4) \o bytes

ReadWritePayload(group, offset, read_len, write_data) ==
    PackLE(group, 4) \o PackLE(offset, 4) \o PackLE(read_len, 4) \o
    PackLE(Len(write_data), 4) \o write_data

GetHandlePayload(name) == ReadWritePayload(61443, 0, 4, name \o <<0>>)

NameUnknown == <<77, 65, 73, 78, 46, 78, 111, 112, 101>>   \* "MAIN.Nope"

NameLowerCase ==                                           \* "main.motor.brun"
    <<109, 97, 105, 110, 46, 109, 111, 116, 111, 114, 46, 98, 114, 117, 110>>

DeviceInfoFrames == {Frame(PeerA, 1, <<>>), Frame(PeerB, 1, <<>>)}

ReadFrames ==
    {Frame(PeerA, 2, ReadPayload(16416, 0, 2)),        \* 0x4020
     Frame(PeerB, 2, ReadPayload(61445, 1000, 0)),     \* 0xF005, offset = a handle id
     Frame(PeerA, 2, ReadPayload(61445, 1000, 4))}

WriteFrames ==
    {Frame(PeerA, 3, WritePayload(16416, 0, <<7, 0>>)),
     Frame(PeerB, 3, WritePayload(61446, 0, PackLE(1000, 4))),   \* 0xF006: release handle
     \* 0xF005: write by handle 1000, 4 bytes declared and 2 supplied
     Frame(PeerA, 3, ReadPayload(61445, 1000, 4) \o <<1, 0>>)}

ReadStateFrames == {Frame(PeerA, 4, <<>>)}

WriteControlFrames == {Frame(PeerB, 5, PackLE(6, 2) \o PackLE(0, 2))}   \* target state 6: stop

GetHandleKnownFrames ==
    {Frame(PeerA, 9, GetHandlePayload(NameMotorRun)),
     Frame(PeerB, 9, GetHandlePayload(NameConveyorSpeed)),
     \* index offset 1000, read-length 0, write-length 2, two NULs after the name,
     \* and a header that declares no payload
     FrameDeclaring(PeerA, 9, 0,
                    PackLE(61443, 4) \o PackLE(1000, 4) \o PackLE(0, 4) \o PackLE(2, 4) \o
                    NameSensorsTemp \o <<0, 0>>)}

GetHandleUnknownFrames ==
    {Frame(PeerA, 9, GetHandlePayload(NameUnknown)),
     Frame(PeerB, 9, GetHandlePayload(NameLowerCase)),
     Frame(PeerA, 9, ReadWritePayload(61443, 0, 4, <<>>)),       \* empty name
     \* "MAIN.Motor.bRunX" without NUL; the write-length covers "MAIN.Motor.bRun"
     Frame(PeerB, 9, PackLE(61443, 4) \o PackLE(0, 4) \o PackLE(4, 4) \o
                     PackLE(Len(NameMotorRun), 4) \o NameMotorRun \o <<88>>)}

PassthroughFrames ==
    {Frame(PeerA, 9, ReadWritePayload(61445, 1000, 4, <<>>)),
     \* 0xF004, next to the get-handle group, carrying a seeded name
     Frame(PeerB, 9, ReadWritePayload(61444, 0, 3, NameMotorRun \o <<0>>))}

UnknownOpcodeFrames ==
    {Frame(PeerA, 65535, <<>>),
     Frame(PeerB, 257, <<1, 2, 3>>),      \* 0x0101: low byte is a known command id
     Frame(PeerB, 0, <<>>)}

\* frames whose payload is shorter than the fixed fields of their opcode,
\* and a Get-Handle name that is not ASCII
MalformedFrames ==
    {Frame(PeerA, 2, PackLE(16416, 4)),
     Frame(PeerB, 5, <<6>>),
     Frame(PeerA, 9, ReadWritePayload(61443, 0, 4, <<200, 0>>))}

WellFormedFrames ==
    DeviceInfoFrames \cup ReadFrames \cup WriteFrames \cup ReadStateFrames \cup
    WriteControlFrames \cup GetHandleKnownFrames \cup GetHandleUnknownFrames \cup
    PassthroughFrames \cup UnknownOpcodeFrames

\* reads that deliver less than a header
TruncatedChunks ==
    {Slice(Frame(PeerA, 1, <<>>), 0, 10),
     Slice(Frame(PeerB, 9, GetHandlePayload(NameMotorRun)), 0, 31)}

\* a read that delivers two complete Get-Handle frames at once
CoalescedChunks ==
    {Frame(PeerA, 9, GetHandlePayload(NameMotorRun)) \o
     Frame(PeerA, 9, GetHandlePayload(NameMotorRun))}

Chunks == WellFormedFrames \cup MalformedFrames \cup TruncatedChunks \cup CoalescedChunks

(***************************************************************************)
(* The FINS mock PLC (fins_mock_plc.py): MockPLC.__init__ and              *)
(* MockPLC.handle_command.  Words are 16-bit, packed big-endian ('!H').    *)
(***************************************************************************)
AreaDM == 130    \* 0x82
AreaCIO == 48    \* 0x30
AreaWR == 49     \* 0x31
AreaHR == 50     \* 0x32

\* lines 17-26: four areas, DM 1000..1099 pre-populated with 0..99, CIO 0..99 with 0
InitialMemory ==
    [area \in {AreaDM, AreaCIO, AreaWR, AreaHR} |->
        IF area = AreaDM THEN [a \in 1000 .. 1099 |-> a - 1000]
        ELSE IF area = AreaCIO THEN [a \in 0 .. 99 |-> 0]
        ELSE [a \in {} |-> 0]]

\* line 64: self.memory.get(area_code, {}).get(address, 0)
MemGet(mem, area_code, address) ==
    IF area_code \in DOMAIN mem /\ address \in DOMAIN mem[area_code]
    THEN mem[area_code][address]
    ELSE 0

\* struct.unpack('!BHBH', payload[:6])
FinsCanUnpack(payload) == Len(Slice(payload, 0, 6)) = 6

FinsArea(payload) == payload[1]

FinsAddress(payload) == 256 * payload[2] + payload[3]

FinsCount(payload) == 256 * payload[5] + payload[6]

\* lines 62-66: the words at address .. address + count - 1, each packed '!H'
RECURSIVE FinsReadWords(_, _, _, _)
FinsReadWords(mem, area_code, address, count) ==
    IF count = 0 THEN <<>>
    ELSE PackBE(MemGet(mem, area_code, address), 2) \o
         FinsReadWords(mem, area_code, address + 1, count - 1)

\* line 74: the number of loop rounds i < count with len(values_data) >= (i+1)*2
FinsStored(count, values_data) == Min(count, Len(values_data) \div 2)

\* line 75: struct.unpack('!H', values_data[i*2:(i+1)*2])[0]
FinsWord(values_data, i) == 256 * values_data[2 * i + 1] + values_data[2 * i + 2]

\* mutant: the words are stored from address + 1 on
FinsWriteWordsOffByOne(mem, area_code, address, count, values_data) ==
    LET n == FinsStored(count, values_data)
        old == IF area_code \in DOMAIN mem THEN mem[area_code] ELSE [a \in {} |-> 0]
        area == [a \in (DOMAIN old) \cup (address + 1 .. address + n) |->
                    IF a \in address + 1 .. address + n
                    THEN FinsWord(values_data, a - address - 1)
                    ELSE old[a]]
    IN  IF n = 0 THEN mem
        ELSE [c \in (DOMAIN mem) \cup {area_code} |->
                 IF c = area_code THEN area ELSE mem[c]]

\* lines 72-78: the supplied words are stored at address, address + 1, ...; the area
\* is created when the first word is stored into it
FinsWriteWords(mem, area_code, address, count, values_data) ==
    LET n == FinsStored(count, values_data)
        old == IF area_code \in DOMAIN mem THEN mem[area_code] ELSE [a \in {} |-> 0]
        area == [a \in (DOMAIN old) \cup (address .. address + n - 1) |->
                    IF a \in address .. address + n - 1
                    THEN FinsWord(values_data, a - address)
                    ELSE old[a]]
    IN  IF n = 0 THEN mem
        ELSE [c \in (DOMAIN mem) \cup {area_code} |->
                 IF c = area_code THEN area ELSE mem[c]]

\* lines 43-51: ICF 0xC0, RSV 0, GCT 2, then SNA SA1 SA2, DNA DA1 DA2 and SID
FinsRespHeader(header) ==
    <<192, 0, 2, header[7], header[8], header[9], header[4], header[5], header[6],
      header[10]>>

\* lines 28-84 of fins_mock_plc.py
fins_handle_command(data, mem) ==
    IF Len(data) < 12
    THEN [raised |-> FALSE, response |-> <<>>, memory |-> mem]
    ELSE LET header == Slice(data, 0, 10)
             mrc == data[11]
             src == data[12]
             payload == SliceFrom(data, 12)
             head == FinsRespHeader(header) \o <<mrc, src>>
         IN  IF mrc = 1 /\ src = 1
             THEN IF ~ FinsCanUnpack(payload)
                  THEN [raised |-> TRUE, response |-> <<>>, memory |-> mem]
                  ELSE [raised |-> FALSE,
                        response |-> head \o <<0, 0>> \o
                                     FinsReadWords(mem, FinsArea(payload),
                                                   FinsAddress(payload), FinsCount(payload)),
                        memory |-> mem]
             ELSE IF mrc = 1 /\ src = 2
             THEN IF ~ FinsCanUnpack(payload)
                  THEN [raised |-> TRUE, response |-> <<>>, memory |-> mem]
                  ELSE [raised |-> FALSE,
                        response |-> head \o <<0, 0>>,
                        memory |-> FinsWriteWords(mem, FinsArea(payload),
                                                  FinsAddress(payload), FinsCount(payload),
                                                  SliceFrom(payload, 6))]
             ELSE [raised |-> FALSE, response |-> head \o <<0, 1>>, memory |-> mem]

\* FINS requests of one client node
FinsHeader == <<128, 0, 2, 0, 10, 0, 0, 20, 0, 7>>

FinsRead(area_code, address, count) ==
    FinsHeader \o <<1, 1, area_code>> \o PackBE(address, 2) \o <<0>> \o PackBE(count, 2)

\* count is declared, words are what the payload carries
FinsWrite(area_code, address, count, bytes) ==
    FinsHeader \o <<1, 2, area_code>> \o PackBE(address, 2) \o <<0>> \o PackBE(count, 2) \o
    bytes

FinsWriteFrames ==
    {FinsWrite(AreaDM, 1001, 2, <<171, 205, 1, 2>>),     \* over pre-populated words
     FinsWrite(AreaDM, 1002, 2, <<0, 5, 0, 6>>),         \* overlaps the write above
     FinsWrite(AreaWR, 0, 3, <<17, 34, 51>>),            \* one word and one byte of three
     FinsWrite(153, 65535, 2, <<255, 255, 0, 9>>)}       \* a new area, past 0xFFFF

FinsReadFrames ==
    {FinsRead(AreaDM, 1001, 2),
     FinsRead(AreaDM, 1000, 4),
     FinsRead(AreaWR, 0, 3),
     FinsRead(153, 65535, 2),
     FinsRead(AreaHR, 5, 1)}

FinsOtherFrames ==
    {FinsHeader \o <<5, 1>>,                             \* controller data read
     Slice(FinsRead(AreaDM, 1001, 2), 0, 5),             \* less than header + command
     Slice(FinsRead(AreaDM, 1001, 2), 0, 15)}            \* a read without its count

FinsFrames == FinsWriteFrames \cup FinsReadFrames \cup FinsOtherFrames

(***************************************************************************)
(* MockPLC.handle_client and the listener of MockPLC.start                 *)
(***************************************************************************)
ReadSize == 4096

DeviceState == [symbols |-> symbols, handles |-> handles, next_handle |-> next_handle]

\* a Read-Write request with index group 0xF003 and all its fixed fields
IsGetHandleRequest(data) ==
    /\ Len(data) >= HeaderLen + 16
    /\ UnpackLE(Slice(data, 16, 18)) = 9
    /\ UnpackLE(Slice(data, 32, 36)) = 61443

\* a reply payload of result 0, length 4 and a 4-byte handle
IsHandleReply(resp) ==
    /\ Len(resp) = HeaderLen + 12
    /\ UnpackLE(Slice(resp, 32, 36)) = 0
    /\ UnpackLE(Slice(resp, 36, 40)) = 4

HandleInReply(resp) == UnpackLE(Slice(resp, 40, 44))

\* what a read delivered: less than a header, a command id outside the dispatch
\* table, or a command id of the dispatch table
Kind(data) ==
    IF Len(data) < HeaderLen THEN "short"
    ELSE IF UnpackLE(Slice(data, 16, 18)) \in {1, 2, 3, 4, 5, 9} THEN "known"
    ELSE "unknown"

Init ==
    /\ symbols = SeedSymbols
    /\ handles = NoHandles
    /\ next_handle = HandleBase
    /\ byteorder \in {"little", "big"}
    /\ pc = [c \in Conns |-> "idle"]
    /\ rbuf = [c \in Conns |-> <<>>]
    /\ req = [c \in Conns |-> <<>>]
    /\ wbuf = [c \in Conns |-> <<>>]
    /\ closedBy = [c \in Conns |-> "none"]
    /\ prev = [c \in Conns |-> "none"]
    /\ issued = <<>>
    /\ nreads = 0
    /\ memory = InitialMemory
    /\ fins_log = <<>>

\* lines 176-185 and 155-157: the server accepts a connection and starts its handler,
\* which runs up to its first reader.read
Accept(c) ==
    /\ pc[c] = "idle"
    /\ pc' = [pc EXCEPT ![c] = "read"]
    /\ UNCHANGED <<symbols, handles, next_handle, byteorder, rbuf, req, wbuf,
                   closedBy, prev, issued, nreads>>
    /\ UNCHANGED finsVars

\* the peer's bytes reach the connection's stream while its handler is suspended in
\* reader.read or in writer.drain; in the latter case they wait in the stream until
\* the handler is back at reader.read
Receive(c, chunk) ==
    /\ pc[c] \in {"read", "drain"}
    /\ rbuf[c] = <<>>
    /\ nreads < MaxReads
    /\ rbuf' = [rbuf EXCEPT ![c] = chunk]
    /\ nreads' = nreads + 1
    /\ UNCHANGED <<symbols, handles, next_handle, byteorder, pc, req, wbuf,
                   closedBy, prev, issued>>
    /\ UNCHANGED finsVars

\* mutant: the next read is served while the last reply is still being drained
ReadReadyWhileDraining(c) ==
    /\ pc[c] \in {"read", "drain"}
    /\ rbuf[c] # <<>>

\* lines 160-169: reader.read returns only to a handler that awaits it, and the handler
\* awaits it only after writer.drain of the last reply has returned
ReadReady(c) ==
    /\ pc[c] = "read"
    /\ rbuf[c] # <<>>

\* lines 163-169 (and 170-173 when handle_command raises): reader.read returns the
\* buffered bytes, handle_command runs, the response goes to writer.write and the
\* handler suspends in writer.drain
Serve(c) ==
    /\ ReadReady(c)
    /\ LET data == Slice(rbuf[c], 0, ReadSize)
           r == handle_command(data, DeviceState, byteorder)
       IN  /\ rbuf' = [rbuf EXCEPT ![c] = SliceFrom(rbuf[c], ReadSize)]
           /\ symbols' = r.st.symbols
           /\ handles' = r.st.handles
           /\ next_handle' = r.st.next_handle
           /\ req' = [req EXCEPT ![c] = data]
           /\ prev' = prev
           /\ IF r.raised
              THEN /\ pc' = [pc EXCEPT ![c] = "closed"]
                   /\ closedBy' = [closedBy EXCEPT ![c] = "exception"]
                   /\ wbuf' = [wbuf EXCEPT ![c] = <<>>]
                   /\ issued' = issued
              ELSE /\ pc' = [pc EXCEPT ![c] = "drain"]
                   /\ closedBy' = closedBy
                   /\ wbuf' = [wbuf EXCEPT ![c] = r.response]
                   /\ issued' = IF IsGetHandleRequest(data) /\ IsHandleReply(r.response)
                                THEN Append(issued, [conn |-> c,
                                                     handle |-> HandleInReply(r.response)])
                                ELSE issued
    /\ UNCHANGED <<byteorder, nreads>>
    /\ UNCHANGED finsVars

\* mutant: the drain completes only while no other connection is suspended in a read
DrainedWhenOthersQuiet(c) ==
    /\ pc[c] = "drain"
    /\ \A d \in Conns \ {c} : pc[d] # "read"
    /\ pc' = [pc EXCEPT ![c] = "read"]
    /\ req' = [req EXCEPT ![c] = <<>>]
    /\ wbuf' = [wbuf EXCEPT ![c] = <<>>]
    /\ prev' = [prev EXCEPT ![c] = Kind(req[c])]
    /\ UNCHANGED <<symbols, handles, next_handle, byteorder, rbuf, closedBy,
                   issued, nreads>>
    /\ UNCHANGED finsVars

\* line 169: writer.drain returns, the loop goes back to reader.read
Drained(c) ==
    /\ pc[c] = "drain"
    /\ pc' = [pc EXCEPT ![c] = "read"]
    /\ req' = [req EXCEPT ![c] = <<>>]
    /\ wbuf' = [wbuf EXCEPT ![c] = <<>>]
    /\ prev' = [prev EXCEPT ![c] = Kind(req[c])]
    /\ UNCHANGED <<symbols, handles, next_handle, byteorder, rbuf, closedBy,
                   issued, nreads>>
    /\ UNCHANGED finsVars

\* lines 164-165, 172-173: reader.read returns b'' (the peer closed), the loop breaks
PeerCloses(c) ==
    /\ pc[c] = "read"
    /\ rbuf[c] = <<>>
    /\ pc' = [pc EXCEPT ![c] = "closed"]
    /\ closedBy' = [closedBy EXCEPT ![c] = "peer_closed"]
    /\ UNCHANGED <<symbols, handles, next_handle, byteorder, rbuf, req, wbuf,
                   prev, issued, nreads>>
    /\ UNCHANGED finsVars

\* mutant: the failure of one connection ends every handler
IoErrorKillsServer(c) ==
    /\ pc[c] \in {"read", "drain"}
    /\ pc' = [d \in Conns |-> "closed"]
    /\ closedBy' = [d \in Conns |-> IF closedBy[d] = "none" THEN "io_error" ELSE closedBy[d]]
    /\ rbuf' = [d \in Conns |-> <<>>]
    /\ req' = [d \in Conns |-> <<>>]
    /\ wbuf' = [d \in Conns |-> <<>>]
    /\ UNCHANGED <<symbols, handles, next_handle, byteorder, prev, issued, nreads>>
    /\ UNCHANGED finsVars

\* lines 170-173: reader.read or writer.drain raises (connection reset, broken pipe)
IoError(c) ==
    /\ pc[c] \in {"read", "drain"}
    /\ pc' = [pc EXCEPT ![c] = "closed"]
    /\ closedBy' = [closedBy EXCEPT ![c] = "io_error"]
    /\ rbuf' = [rbuf EXCEPT ![c] = <<>>]
    /\ req' = [req EXCEPT ![c] = <<>>]
    /\ wbuf' = [wbuf EXCEPT ![c] = <<>>]
    /\ UNCHANGED <<symbols, handles, next_handle, byteorder, prev, issued, nreads>>
    /\ UNCHANGED finsVars

Next ==
    \E c \in Conns :
        \/ Accept(c)
        \/ \E chunk \in Chunks : Receive(c, chunk)
        \/ Serve(c)
        \/ Drained(c)
        \/ PeerCloses(c)
        \/ IoError(c)

Spec == Init /\ [][Next]_vars

\* the reads of the runs checked for progress: requests that change the device
\* state, requests that do not, unknown opcodes, and reads that end the connection
\* or are answered with nothing
ProgressChunks ==
    GetHandleKnownFrames \cup ReadFrames \cup UnknownOpcodeFrames \cup
    MalformedFrames \cup TruncatedChunks

\* fins_mock_plc.py lines 92-97: one read of the FINS emulator is handed to its
\* handle_command; the call and its outcome are recorded
FinsServe(data) ==
    /\ Len(fins_log) < MaxFinsOps
    /\ LET r == fins_handle_command(data, memory)
       IN  /\ memory' = r.memory
           /\ fins_log' = Append(fins_log, [data |-> data, raised |-> r.raised,
                                            response |-> r.response])
    /\ UNCHANGED <<symbols, handles, next_handle, byteorder, pc, rbuf, req, wbuf,
                   closedBy, prev, issued, nreads>>

FinsNext == \E data \in FinsFrames : FinsServe(data)

FinsSpec == Init /\ [][FinsNext]_vars

\* the steps of a run in which no read and no drain fails
NextNoIoError ==
    \E c \in Conns :
        \/ Accept(c)
        \/ \E chunk \in ProgressChunks : Receive(c, chunk)
        \/ Serve(c)
        \/ Drained(c)
        \/ PeerCloses(c)

\* line 163 as the event loop sees it: the task of connection c, suspended in
\* reader.read with bytes buffered, is resumed and runs to its next suspension point
\* (writer.drain) or to its end; within NextNoIoError these are the Serve(c) steps
ReadResumed(c) ==
    /\ ReadReady(c)
    /\ rbuf' = [rbuf EXCEPT ![c] = SliceFrom(rbuf[c], ReadSize)]
    /\ pc' \in {[pc EXCEPT ![c] = "drain"], [pc EXCEPT ![c] = "closed"]}

\* the event loop runs every connection task that is ready: a task whose read has
\* bytes to return, or whose drain can complete, is eventually resumed
FairSpec ==
    /\ Init
    /\ [][NextNoIoError]_vars
    /\ \A c \in Conns : WF_<<pc, rbuf>>(ReadResumed(c)) /\ WF_vars(Drained(c))

TypeOK ==
    /\ DOMAIN symbols = SeedNames
    /\ next_handle \in Nat
    /\ byteorder \in {"little", "big"}
    /\ nreads \in 0..MaxReads
    /\ \A c \in Conns :
          /\ pc[c] \in {"idle", "read", "drain", "closed"}
          /\ closedBy[c] \in {"none", "peer_closed", "io_error", "exception"}
          /\ prev[c] \in {"none", "short", "known", "unknown"}
          /\ pc[c] = "closed" <=> closedBy[c] # "none"
          /\ pc[c] # "drain" => wbuf[c] = <<>>

(***************************************************************************)
(* Properties.                                                             *)
(*                                                                         *)
(* In a step where pc[c] goes from "read" to "drain", reader.read returned *)
(* rbuf[c] on connection c, handle_command returned wbuf'[c] and it was    *)
(* handed to writer.write; in a step that closes c with closedBy           *)
(* "exception", handle_command raised on rbuf[c].                          *)
(***************************************************************************)
Replied(c) == pc[c] = "read" /\ pc'[c] = "drain"

Raised(c) == pc[c] = "read" /\ pc'[c] = "closed" /\ closedBy'[c] = "exception"

Handled(c) == Replied(c) \/ Raised(c)

\* the bytes of a response after its 32-byte header
PayloadOf(resp) == SubSeq(resp, 33, Len(resp))

\* the little-endian value of bytes i..i+3 of a byte string
U32At(bs, i) == bs[i] + 256 * bs[i + 1] + 65536 * bs[i + 2] + 16777216 * bs[i + 3]

\* C1 (handle monotonicity): the handle ids returned by successful Get-Handle-by-Name
\* requests are strictly increasing in the order the requests are dispatched, so
\* none is returned twice, also when the same name is requested again.
HandleMonotonicity ==
    \A i, j \in 1..Len(issued) : i < j => issued[i].handle < issued[j].handle

\* C1 witness: two handles were returned for one and the same symbol name.
SameNameTwice ==
    /\ Len(issued) >= 2
    /\ \E h1, h2 \in DOMAIN handles : h1 # h2 /\ handles[h1] = handles[h2]

\* C2 (unknown-symbol handle request): a Read-Write request with index group 0xF003
\* whose name is no key of the symbol table is answered with result code 0x710 and
\* a 4-byte length of 0 and no data, and next_handle and handles stay as they were.
UnknownSymbolRequest ==
    [][\A c \in Conns :
          (Handled(c) /\ rbuf[c] \in GetHandleUnknownFrames)
          => /\ Replied(c)
             /\ PayloadOf(wbuf'[c]) = <<16, 7, 0, 0, 0, 0, 0, 0>>
             /\ next_handle' = next_handle
             /\ handles' = handles]_vars

\* C2 witness: an unknown name was answered after a handle had been allocated.
UnknownAfterAllocation ==
    \E c \in Conns :
        /\ pc[c] = "drain"
        /\ req[c] \in GetHandleUnknownFrames
        /\ next_handle > HandleBase

\* C3 (concurrent allocation): with the handlers of several connections interleaved
\* at reader.read and writer.drain, no two Get-Handle replies carry the same handle
\* id, whether they went out on one connection or on two, drained or not.
NoHandleSentTwice ==
    /\ \A i, j \in 1..Len(issued) : i # j => issued[i].handle # issued[j].handle
    /\ \A c, d \in Conns :
          (c # d /\ pc[c] = "drain" /\ pc[d] = "drain"
           /\ IsGetHandleRequest(req[c]) /\ IsHandleReply(wbuf[c])
           /\ IsGetHandleRequest(req[d]) /\ IsHandleReply(wbuf[d]))
          => U32At(wbuf[c], 41) # U32At(wbuf[d], 41)

\* C3 witness: two connections hold a Get-Handle reply each, neither drained yet.
TwoRepliesInFlight ==
    \E c, d \in Conns :
        /\ c # d /\ pc[c] = "drain" /\ pc[d] = "drain"
        /\ req[c] \in GetHandleKnownFrames /\ req[d] \in GetHandleKnownFrames
        /\ IsHandleReply(wbuf[c]) /\ IsHandleReply(wbuf[d])
        /\ \E i, j \in 1..Len(issued) : issued[i].conn = c /\ issued[j].conn = d

\* C4 (invoke-id echo): every request of at least 32 bytes that gets a reply gets
\* one whose header bytes 28..31 equal the request's bytes 28..31.
InvokeIdEcho ==
    \A c \in Conns :
        (pc[c] = "drain" /\ Len(req[c]) >= 32)
        => /\ Len(wbuf[c]) >= 32
           /\ SubSeq(wbuf[c], 29, 32) = SubSeq(req[c], 29, 32)

\* C4 witness: an unknown opcode and a symbol-not-found reply, invoke id 0x7EADBEEF.
EchoOnUnknownAndNotFound ==
    /\ \E c \in Conns :
          /\ pc[c] = "drain" /\ req[c] = Frame(PeerB, 257, <<1, 2, 3>>)
          /\ SubSeq(wbuf[c], 29, 32) = <<239, 190, 173, 126>>
    /\ \E c \in Conns :
          /\ pc[c] = "drain" /\ req[c] = Frame(PeerB, 9, GetHandlePayload(NameLowerCase))
          /\ SubSeq(wbuf[c], 29, 32) = <<239, 190, 173, 126>>

\* C5 (endpoint swap): the reply's target (network id, port) is the request's source
\* and the reply's source is the request's target.
EndpointSwap ==
    \A c \in Conns :
        (pc[c] = "drain" /\ Len(req[c]) >= 32)
        => /\ Len(wbuf[c]) >= 32
           /\ SubSeq(wbuf[c], 1, 8) = SubSeq(req[c], 9, 16)
           /\ SubSeq(wbuf[c], 9, 16) = SubSeq(req[c], 1, 8)

\* C5 witness: a reply to a request of peer B, whose two endpoints differ.
SwappedReply ==
    \E c \in Conns :
        /\ pc[c] = "drain" /\ req[c] = Frame(PeerB, 1, <<>>)
        /\ SubSeq(wbuf[c], 1, 8) = <<172, 16, 0, 9, 1, 1, 255, 255>>
        /\ SubSeq(wbuf[c], 9, 16) = <<5, 6, 7, 8, 1, 1, 33, 3>>

\* C6 (truncated frame): a read of 1..31 bytes makes handle_command return no
\* bytes and leaves symbols, handles and next_handle alone; the handler writes
\* nothing and keeps the connection open, and a well-formed frame delivered by the
\* next read of that connection is dispatched and answered.
TruncatedFrame ==
    [][\A c \in Conns :
          /\ (Handled(c) /\ Len(rbuf[c]) < 32)
             => /\ Replied(c)
                /\ wbuf'[c] = <<>>
                /\ symbols' = symbols /\ handles' = handles /\ next_handle' = next_handle
          /\ (Handled(c) /\ prev[c] = "short" /\ rbuf[c] \in WellFormedFrames)
             => /\ Replied(c)
                /\ Len(wbuf'[c]) >= 36]_vars

\* C6 witness: a well-formed frame was answered on a connection whose previous read
\* was shorter than a header.
AnsweredAfterTruncated ==
    \E c \in Conns :
        /\ pc[c] = "drain" /\ prev[c] = "short"
        /\ req[c] \in WellFormedFrames
        /\ Len(wbuf[c]) >= 36

\* C7 (connection closure causes): a connection is closed only because the peer
\* closed (empty read) or a network read or write failed; no frame content closes it.
ClosedOnlyByPeerOrIo ==
    \A c \in Conns : pc[c] = "closed" => closedBy[c] \in {"peer_closed", "io_error"}

\* C8 (unknown opcode): a command id outside {1, 2, 3, 4, 5, 9} is answered with a
\* payload that is the result code 0 and nothing else, changes no device state and
\* leaves the connection open, and the next request on it is processed.
UnknownOpcode ==
    [][\A c \in Conns :
          /\ (Handled(c) /\ rbuf[c] \in UnknownOpcodeFrames)
             => /\ Replied(c)
                /\ PayloadOf(wbuf'[c]) = <<0, 0, 0, 0>>
                /\ symbols' = symbols /\ handles' = handles /\ next_handle' = next_handle
          /\ (Handled(c) /\ prev[c] = "unknown" /\ rbuf[c] \in WellFormedFrames)
             => /\ Replied(c)
                /\ Len(wbuf'[c]) >= 36]_vars

\* C8 witness: command id 0xFFFF was answered, and the next request on the same
\* connection was answered as well.
AnsweredAfterUnknown ==
    /\ \E c \in Conns :
          /\ pc[c] = "drain" /\ req[c] = Frame(PeerA, 65535, <<>>)
          /\ PayloadOf(wbuf[c]) = <<0, 0, 0, 0>>
    /\ \E c \in Conns :
          /\ pc[c] = "drain" /\ prev[c] = "unknown"
          /\ req[c] \in WellFormedFrames /\ Len(wbuf[c]) >= 36

\* the 16-byte device-name field: "TwinCAT 3 PLC" and three NULs
NameField == <<84, 119, 105, 110, 67, 65, 84, 32, 51, 32, 80, 76, 67, 0, 0, 0>>

\* C9 as stated (Device Info scenario): the reply payload is 4 zero bytes, a 3-byte
\* version tuple and the 16-byte NUL-padded device name.
DeviceInfoThreeByteVersion ==
    \A c \in Conns :
        (pc[c] = "drain" /\ req[c] \in DeviceInfoFrames)
        => LET p == PayloadOf(wbuf[c])
           IN  /\ Len(p) = 4 + 3 + 16
               /\ SubSeq(p, 1, 4) = <<0, 0, 0, 0>>
               /\ SubSeq(p, 8, 23) = NameField

\* C9 amended (Device Info scenario): the reply payload is 4 zero bytes, a 4-byte
\* version field (major 3 and minor 1 in one byte each, build 4024 in two bytes in
\* the host's byte order) and the 16-byte NUL-padded device name; no device state
\* is touched.
DeviceInfoScenario ==
    [][\A c \in Conns :
          (Handled(c) /\ rbuf[c] \in DeviceInfoFrames)
          => /\ Replied(c)
             /\ LET p == PayloadOf(wbuf'[c])
                IN  /\ Len(p) = 4 + 4 + 16
                    /\ SubSeq(p, 1, 4) = <<0, 0, 0, 0>>
                    /\ SubSeq(p, 5, 6) = <<3, 1>>
                    /\ SubSeq(p, 7, 8) = IF byteorder = "little" THEN <<184, 15>>
                                                                 ELSE <<15, 184>>
                    /\ SubSeq(p, 9, 24) = NameField
             /\ symbols' = symbols /\ handles' = handles /\ next_handle' = next_handle]_vars

\* C9 witness: a Device Info request was answered after a handle had been allocated.
DeviceInfoAnswered ==
    \E c \in Conns :
        /\ pc[c] = "drain" /\ req[c] = Frame(PeerA, 1, <<>>)
        /\ Len(wbuf[c]) = 56
        /\ next_handle > HandleBase

\* C10 (Get Handle scenario): a Get-Handle request for a seeded name is answered with
\* result 0, length 4 and the value next_handle had before the request, and
\* next_handle is one greater afterwards; while no handle has been allocated the
\* handle is 1000.
GetHandleScenario ==
    [][\A c \in Conns :
          (Handled(c) /\ rbuf[c] \in GetHandleKnownFrames)
          => /\ Replied(c)
             /\ LET p == PayloadOf(wbuf'[c])
                IN  /\ Len(p) = 12
                    /\ SubSeq(p, 1, 8) = <<0, 0, 0, 0, 4, 0, 0, 0>>
                    /\ U32At(p, 9) = next_handle
                    /\ handles = NoHandles => SubSeq(p, 9, 12) = <<232, 3, 0, 0>>
             /\ next_handle' = next_handle + 1]_vars

\* C10 witness: the first request of a fresh instance asks for "MAIN.Motor.bRun" and
\* gets handle 1000.
FirstHandleIs1000 ==
    \E c \in Conns :
        /\ nreads = 1
        /\ pc[c] = "drain"
        /\ req[c] = Frame(PeerA, 9, GetHandlePayload(NameMotorRun))
        /\ PayloadOf(wbuf[c]) = <<0, 0, 0, 0, 4, 0, 0, 0, 232, 3, 0, 0>>
        /\ next_handle = 1001

\* C11 (reply length field): in every reply the 32-bit field at header bytes 20..23
\* equals the number of payload bytes that follow the 32-byte header.
ReplyLengthField ==
    \A c \in Conns :
        (pc[c] = "drain" /\ wbuf[c] # <<>>)
        => /\ Len(wbuf[c]) >= 32
           /\ U32At(wbuf[c], 21) = Len(wbuf[c]) - 32

\* C11 witness: replies with payloads of 8 bytes (symbol not found) and of 10 bytes
\* (a read of 2 bytes) are out at the same time.
RepliesOfSeveralLengths ==
    \E c, d \in Conns :
        /\ pc[c] = "drain" /\ req[c] \in GetHandleUnknownFrames /\ Len(wbuf[c]) = 40
        /\ pc[d] = "drain" /\ req[d] \in ReadFrames /\ Len(wbuf[d]) = 42

\* C12 (codec round trip): parsing the bytes that the response construction made of
\* an envelope (the reply's endpoints, command id, state flags, error code, invoke id
\* and payload) with the 32-byte little-endian layout of the request parser gives
\* back every field of that envelope, and a length field equal to the payload length.
CodecRoundTrip ==
    [][\A c \in Conns :
          Replied(c)
          => LET h == ParseHeader(rbuf[c])
                 e == RespFields(h)
                 payload == Dispatch(h.command_id, h.payload, DeviceState, byteorder).resp_data
                 d == ParseHeader(wbuf'[c])
             IN  Len(rbuf[c]) >= 32
                 => /\ d.target_net_id = e.target_net_id
                    /\ d.target_port = e.target_port
                    /\ d.source_net_id = e.source_net_id
                    /\ d.source_port = e.source_port
                    /\ d.command_id = e.command_id
                    /\ d.state_flags = e.state_flags
                    /\ d.error_code = e.error_code
                    /\ d.invoke_id = e.invoke_id
                    /\ d.payload = payload
                    /\ d.data_len = Len(payload)]_vars

\* C12 witness: an envelope with two-byte ports, a four-byte invoke id and a payload
\* of 12 bytes was encoded.
EncodedWideEnvelope ==
    \E c \in Conns :
        /\ pc[c] = "drain"
        /\ req[c] = Frame(PeerB, 9, GetHandlePayload(NameConveyorSpeed))
        /\ Len(wbuf[c]) = 44

\* reader.read returned bytes on connection c in this step
ReadReturned(c) == rbuf[c] # <<>> /\ rbuf'[c] = <<>> /\ closedBy'[c] # "io_error"

\* C13 (per-connection ordering): on one connection a read returns a request only
\* when no earlier request of that connection is in flight and the earlier reply has
\* been drained; the request dispatched is the one whose bytes that read returned;
\* and while a reply is being drained, the request in flight and its reply stay as
\* they are until the drain returns or the connection fails, also when the bytes of
\* the next request have arrived already.
PerConnectionOrdering ==
    [][\A c \in Conns :
          /\ ReadReturned(c)
             => /\ pc[c] = "read"
                /\ req[c] = <<>>
                /\ wbuf[c] = <<>>
                /\ req'[c] = Slice(rbuf[c], 0, ReadSize)
          /\ (pc[c] = "drain" /\ pc'[c] = "drain")
             => (req'[c] = req[c] /\ wbuf'[c] = wbuf[c])
          /\ (pc[c] = "drain" /\ pc'[c] # "drain")
             => \/ pc'[c] = "read" /\ req'[c] = <<>> /\ wbuf'[c] = <<>> /\ rbuf'[c] = rbuf[c]
                \/ pc'[c] = "closed" /\ closedBy'[c] = "io_error"]_vars

\* C13 witness: the bytes of the next request have arrived while the reply to the
\* request in flight is still being drained.
NextRequestWaitsForDrain ==
    \E c \in Conns :
        /\ pc[c] = "drain"
        /\ req[c] \in GetHandleKnownFrames
        /\ Len(wbuf[c]) = 44
        /\ rbuf[c] \in ReadFrames
\* the read or the drain of connection c failed in this step
IoFailed(c) == closedBy[c] = "none" /\ closedBy'[c] = "io_error"

\* C14 (I/O error isolation): a step in which the read or the write of one connection
\* fails closes that connection only: symbols, handles and next_handle are what they
\* were, and every other connection keeps its position, its buffered bytes, its
\* request in flight and its reply.  After the failure a connection that leaves the
\* listener's queue is accepted, and every other connection whose read returns a
\* request still gets the reply that handle_command computes for it.
IoErrorIsolation ==
    [][\A c \in Conns :
          /\ IoFailed(c)
             => /\ pc'[c] = "closed"
                /\ UNCHANGED <<symbols, handles, next_handle>>
                /\ \A d \in Conns \ {c} :
                      /\ pc'[d] = pc[d]
                      /\ rbuf'[d] = rbuf[d]
                      /\ req'[d] = req[d]
                      /\ wbuf'[d] = wbuf[d]
                      /\ closedBy'[d] = closedBy[d]
          /\ closedBy[c] = "io_error"
             => \A d \in Conns \ {c} :
                   /\ (pc[d] = "idle" /\ pc'[d] # "idle") => pc'[d] = "read"
                   /\ (ReadReturned(d) /\ rbuf[d] \in WellFormedFrames)
                      => /\ Replied(d)
                         /\ wbuf'[d] = handle_command(rbuf[d], DeviceState, byteorder).response]_vars

\* C14 witness: a connection failed while its reply was being drained, after it had
\* allocated a handle, and the other connection has since been accepted and answered.
AnsweredAfterPeerFailure ==
    \E c, d \in Conns :
        /\ closedBy[c] = "io_error"
        /\ nreads = MaxReads
        /\ Len(issued) = 1 /\ issued[1].conn = c
        /\ next_handle = HandleBase + 1
        /\ pc[d] = "drain"
        /\ req[d] \in ReadFrames
        /\ Len(wbuf[d]) = 42

\* the name a Get-Handle request asks for: its write data without trailing NULs
RequestedName(data) == RStripNul(SliceFrom(data, HeaderLen + 16))

\* C15 (handle table invariant): in every reachable state the keys of handles are
\* exactly 1000 .. next_handle - 1 and each maps to a key of symbols; in every step,
\* a connection closing included, every existing binding stays as it is, next_handle
\* does not decrease, and a new key is bound to the name of the Get-Handle request
\* handled in that step.
HandleTableInvariant ==
    /\ [](/\ DOMAIN handles = HandleBase .. (next_handle - 1)
          /\ \A h \in DOMAIN handles : handles[h] \in DOMAIN symbols)
    /\ [][/\ next_handle' >= next_handle
          /\ \A h \in DOMAIN handles :
                h \in DOMAIN handles' /\ handles'[h] = handles[h]
          /\ \A h \in (DOMAIN handles') \ (DOMAIN handles) :
                \E c \in Conns :
                    /\ Handled(c)
                    /\ IsGetHandleRequest(rbuf[c])
                    /\ handles'[h] = RequestedName(rbuf[c])]_vars

\* C15 witness: one name was bound twice, then another request was handled, and the
\* connection that allocated the first handle has closed.
BindingsOutliveConnection ==
    \E c \in Conns :
        /\ Len(issued) = 2 /\ issued[1].conn = c
        /\ pc[c] = "closed"
        /\ DOMAIN handles = {HandleBase, HandleBase + 1}
        /\ handles[HandleBase] = NameMotorRun
        /\ handles[HandleBase + 1] = NameMotorRun

\* the command id of the frame a read returned
CommandOf(data) == UnpackLE(Slice(data, 16, 18))

\* C18 (symbol lifecycle): in every reachable state the symbol names are the seed
\* names; a step changes a symbol's value only if a Write request (0x0003) was handled
\* in it, so that a value differs from its seed value only after a Write was
\* processed; a step that handles any other opcode, or none, leaves symbols unchanged.
SymbolLifecycle ==
    /\ [](DOMAIN symbols = SeedNames)
    /\ [][symbols' # symbols
          => \E c \in Conns :
                Handled(c) /\ Len(rbuf[c]) >= HeaderLen /\ CommandOf(rbuf[c]) = 3]_vars

\* C18 witness: a Write and a Write Control have been answered and the symbols still
\* have their seed values.
SeedValuesAfterWrites ==
    \E c, d \in Conns :
        /\ pc[c] = "drain" /\ req[c] \in WriteFrames
        /\ pc[d] = "drain" /\ req[d] \in WriteControlFrames
        /\ symbols = SeedSymbols

\* C19 (Write is a no-op on state): a Write request (0x0003) that carries its three
\* fixed fields, whatever its index group, index offset, declared length and data,
\* is answered with the 4-byte payload 00 00 00 00 and leaves symbols, handles and
\* next_handle unchanged.
WriteIsNoOp ==
    [][\A c \in Conns :
          (ReadReturned(c) /\ Len(rbuf[c]) >= HeaderLen + 12 /\ CommandOf(rbuf[c]) = 3)
          => /\ Replied(c)
             /\ PayloadOf(wbuf'[c]) = <<0, 0, 0, 0>>
             /\ UNCHANGED <<symbols, handles, next_handle>>]_vars

\* C19 witness: a write to the handle-release index group naming handle 1000 was
\* answered after handle 1000 had been allocated, and the binding is still there.
ReleaseWriteKeepsHandle ==
    \E c \in Conns :
        /\ pc[c] = "drain"
        /\ req[c] = Frame(PeerB, 3, WritePayload(61446, 0, PackLE(1000, 4)))
        /\ Len(wbuf[c]) = HeaderLen + 4
        /\ HandleBase \in DOMAIN handles
        /\ next_handle = HandleBase + 1

\* C20 (Read ignores history): a Read request (0x0002) that carries its three fixed
\* fields and asks for L bytes is answered, in every reachable state and for every
\* index group and index offset, with result code 0, a length field of L and exactly
\* L zero bytes, and it changes no device state.
ReadIgnoresHistory ==
    [][\A c \in Conns :
          (ReadReturned(c) /\ Len(rbuf[c]) >= HeaderLen + 12 /\ CommandOf(rbuf[c]) = 2)
          => LET L == U32At(rbuf[c], HeaderLen + 9)
                 out == PayloadOf(wbuf'[c])
             IN  /\ Replied(c)
                 /\ Len(out) = 8 + L
                 /\ U32At(out, 1) = 0
                 /\ U32At(out, 5) = L
                 /\ \A i \in 9 .. Len(out) : out[i] = 0
                 /\ UNCHANGED <<symbols, handles, next_handle>>]_vars

\* C20 witness: a read of 4 bytes at index group 0xF005, offset 1000 was answered
\* after handle 1000 had been allocated.
ReadAtAllocatedHandle ==
    \E c \in Conns :
        /\ pc[c] = "drain"
        /\ req[c] = Frame(PeerA, 2, ReadPayload(61445, 1000, 4))
        /\ Len(wbuf[c]) = HeaderLen + 12
        /\ HandleBase \in DOMAIN handles

\* the little-endian value of bytes i..i+1 of a byte string
U16At(bs, i) == bs[i] + 256 * bs[i + 1]

\* C21 (Write Control is not persisted): in every reachable state, also after Write
\* Control requests, a Read State request (0x0004) is answered with an 8-byte payload
\* of result code 0, device state 5 and secondary state 0, and changes no state.
ReadStateIsConstant ==
    [][\A c \in Conns :
          (ReadReturned(c) /\ Len(rbuf[c]) >= HeaderLen /\ CommandOf(rbuf[c]) = 4)
          => LET out == PayloadOf(wbuf'[c])
             IN  /\ Replied(c)
                 /\ Len(out) = 8
                 /\ U32At(out, 1) = 0
                 /\ U16At(out, 5) = 5
                 /\ U16At(out, 7) = 0
                 /\ UNCHANGED <<symbols, handles, next_handle>>]_vars

\* C21 witness: a Write Control with target state 6 and a Read State have both been
\* handled, and the Read State reply reports state 5.
RunningDespiteStop ==
    \E c, d \in Conns :
        /\ pc[d] = "drain" /\ req[d] \in WriteControlFrames
        /\ Len(wbuf[d]) = HeaderLen + 4
        /\ pc[c] = "drain" /\ req[c] \in ReadStateFrames
        /\ Len(wbuf[c]) = HeaderLen + 8
        /\ U16At(wbuf[c], HeaderLen + 5) = 5

\* C22 (Read-Write passthrough): a Read-Write request (0x0009) that carries its four
\* fixed fields and whose index group is not 0xF003 is answered with result code 0,
\* a length field equal to its read-length and that many zero bytes; no handle is
\* allocated and symbols, handles and next_handle stay as they are.
ReadWritePassthroughReply ==
    [][\A c \in Conns :
          (/\ ReadReturned(c)
           /\ Len(rbuf[c]) >= HeaderLen + 16
           /\ CommandOf(rbuf[c]) = 9
           /\ U32At(rbuf[c], HeaderLen + 1) # 61443)
          => LET L == U32At(rbuf[c], HeaderLen + 9)
                 out == PayloadOf(wbuf'[c])
             IN  /\ Replied(c)
                 /\ Len(out) = 8 + L
                 /\ U32At(out, 1) = 0
                 /\ U32At(out, 5) = L
                 /\ \A i \in 9 .. Len(out) : out[i] = 0
                 /\ issued' = issued
                 /\ UNCHANGED <<symbols, handles, next_handle>>]_vars

\* C22 witness: a Read-Write at index group 0xF004 that carries a seeded name was
\* answered with 3 zero bytes and no handle exists.
PassthroughWithSeededName ==
    \E c \in Conns :
        /\ pc[c] = "drain"
        /\ req[c] = Frame(PeerB, 9, ReadWritePayload(61444, 0, 3, NameMotorRun \o <<0>>))
        /\ Len(wbuf[c]) = HeaderLen + 11
        /\ handles = NoHandles
        /\ next_handle = HandleBase

\* C23 (name matching for Get-Handle): for a Read-Write request with index group
\* 0xF003 that carries its four fixed fields, let the name be all the bytes after the
\* 16-byte prefix without their trailing NUL bytes.  The request is answered with a
\* new handle bound to that name exactly when the bytes are ASCII and the name is a
\* seeded symbol name; otherwise no handle is allocated (symbol not found, or for
\* bytes that are not ASCII no reply at all).  Index offset, read-length,
\* write-length and the header's length field play no part.
GetHandleNameMatching ==
    [][\A c \in Conns :
          (ReadReturned(c) /\ IsGetHandleRequest(rbuf[c]))
          => LET bytes == SliceFrom(rbuf[c], HeaderLen + 16)
                 name == RequestedName(rbuf[c])
                 out == PayloadOf(wbuf'[c])
                 success == /\ Replied(c)
                            /\ Len(out) = 12
                            /\ U32At(out, 1) = 0
                            /\ U32At(out, 5) = 4
                            /\ U32At(out, 9) = next_handle
                            /\ next_handle' = next_handle + 1
                            /\ DOMAIN handles' = (DOMAIN handles) \cup {next_handle}
                            /\ handles'[next_handle] = name
             IN  /\ success <=> (IsAscii(bytes) /\ name \in SeedNames)
                 /\ ~ success => UNCHANGED <<symbols, handles, next_handle>>
                 /\ (IsAscii(bytes) /\ name \notin SeedNames)
                    => Replied(c) /\ out = <<16, 7, 0, 0, 0, 0, 0, 0>>]_vars

\* C23 witness: a request with index offset 1000, read-length 0, write-length 2, two
\* trailing NULs and a header declaring no payload got a handle, and a request whose
\* write-length covers exactly a seeded name followed by one more byte got symbol
\* not found.
MatchedDespiteDeclaredLengths ==
    \E c, d \in Conns :
        /\ pc[c] = "drain"
        /\ IsGetHandleRequest(req[c])
        /\ U32At(req[c], 21) = 0
        /\ U32At(req[c], HeaderLen + 13) = 2
        /\ IsHandleReply(wbuf[c])
        /\ handles[HandleInReply(wbuf[c])] = NameSensorsTemp
        /\ pc[d] = "drain"
        /\ IsGetHandleRequest(req[d])
        /\ U32At(req[d], HeaderLen + 13) = Len(NameMotorRun)
        /\ Len(req[d]) = HeaderLen + 16 + Len(NameMotorRun) + 1
        /\ PayloadOf(wbuf[d]) = <<16, 7, 0, 0, 0, 0, 0, 0>>

\* the device state right after MockPLC.__init__
FreshState == [symbols |-> SeedSymbols, handles |-> NoHandles, next_handle |-> HandleBase]

\* C24 (history independence): every reply is what handle_command makes of the
\* request bytes and the shared device state, whichever connection read the request
\* and whatever was read before; for every request other than Get-Handle-by-Name it
\* is what a device fresh from construction replies to the same bytes; and two
\* connections whose identical requests, other than Get-Handle-by-Name, are being
\* answered at the same time hold identical replies.
HistoryIndependence ==
    /\ [](\A c, d \in Conns :
             (/\ pc[c] = "drain" /\ pc[d] = "drain"
              /\ req[c] = req[d]
              /\ ~ IsGetHandleRequest(req[c]))
             => wbuf[c] = wbuf[d])
    /\ [][\A c \in Conns :
             Replied(c)
             => /\ wbuf'[c] = handle_command(rbuf[c], DeviceState, byteorder).response
                /\ ~ IsGetHandleRequest(rbuf[c])
                   => wbuf'[c] = handle_command(rbuf[c], FreshState, byteorder).response]_vars

\* C24 witness: a write by handle 1000 is answered on one connection after handle
\* 1000 was allocated through the other, which has failed since.
SameReplyAfterOtherTraffic ==
    \E c, d \in Conns :
        /\ c # d
        /\ pc[c] = "drain"
        /\ req[c] = Frame(PeerA, 3, ReadPayload(61445, 1000, 4) \o <<1, 0>>)
        /\ PayloadOf(wbuf[c]) = <<0, 0, 0, 0>>
        /\ Len(issued) = 1 /\ issued[1].conn = d /\ issued[1].handle = HandleBase
        /\ closedBy[d] = "io_error"

\* C25 (one read, one frame): every read of at least 32 bytes produces exactly one
\* reply, which answers the first header of the read, also when the read holds two
\* complete frames; a read of fewer than 32 bytes is handled on its own and leaves
\* the connection open.
OneReadOneReply ==
    [][\A c \in Conns :
          ReadReturned(c)
          => /\ Replied(c)
             /\ Len(rbuf[c]) >= HeaderLen
                => /\ Len(wbuf'[c]) >= HeaderLen
                   /\ U32At(wbuf'[c], 29) = U32At(rbuf[c], 29)
                   /\ U16At(wbuf'[c], 17) = U16At(rbuf[c], 17)]_vars

\* C26 (progress under concurrency): with fair scheduling of the connection tasks and
\* no I/O failure, the bytes of a well-formed request that have reached an open
\* connection are eventually dispatched and answered on that connection, and every
\* reply is eventually drained, whatever the other connection does, also when it
\* stays suspended in a read for ever; and a connection waiting to be accepted can
\* be accepted in every state, whatever the accepted connections are doing.
ProgressUnderConcurrency ==
    /\ \A c \in Conns :
          /\ (rbuf[c] \in WellFormedFrames)
                ~> (pc[c] = "drain" /\ req[c] \in WellFormedFrames
                    /\ Len(wbuf[c]) >= HeaderLen)
          /\ (pc[c] = "drain") ~> (pc[c] = "read")
    /\ [](\A c \in Conns : pc[c] = "idle" => ENABLED Accept(c))

\* C26 witness: a well-formed request has been answered on one connection while the
\* other is suspended in a read with nothing to return.
AnsweredWhileOtherWaits ==
    \E c, d \in Conns :
        /\ c # d
        /\ pc[d] = "read" /\ rbuf[d] = <<>> /\ prev[d] = "none"
        /\ pc[c] = "drain"
        /\ req[c] \in WellFormedFrames
        /\ Len(wbuf[c]) >= HeaderLen
        /\ prev[c] = "known"

\* C27 (reply state flags): in every reply the state-flags field has bit 0 set and
\* its other 15 bits equal those of the request; a frame that arrives with bit 0 set
\* is dispatched like the same frame with bit 0 clear: it gets the same reply payload
\* and has the same effect on the device state.
ReplyStateFlags ==
    [][\A c \in Conns :
          /\ (Replied(c) /\ Len(rbuf[c]) >= HeaderLen)
             => /\ U16At(wbuf'[c], 19) % 2 = 1
                /\ U16At(wbuf'[c], 19) \div 2 = U16At(rbuf[c], 19) \div 2
          /\ (ReadReturned(c) /\ Len(rbuf[c]) >= HeaderLen /\ U16At(rbuf[c], 19) % 2 = 1)
             => LET asRequest == [rbuf[c] EXCEPT ![19] = @ - 1]
                    r == handle_command(asRequest, DeviceState, byteorder)
                IN  /\ Replied(c) <=> ~ r.raised
                    /\ Replied(c) => PayloadOf(wbuf'[c]) = PayloadOf(r.response)
                    /\ symbols' = r.st.symbols
                    /\ handles' = r.st.handles
                    /\ next_handle' = r.st.next_handle]_vars

\* C27 witness: a Get-Handle frame with state flags 0x8005 got a handle and a reply
\* with state flags 0x8005, and a frame with state flags 0x0004 got 0x0005.
AnsweredWithResponseBitSet ==
    \E c, d \in Conns :
        /\ pc[c] = "drain"
        /\ req[c] = Frame(PeerB, 9, GetHandlePayload(NameConveyorSpeed))
        /\ U16At(wbuf[c], 19) = 32773
        /\ HandleInReply(wbuf[c]) \in DOMAIN handles
        /\ pc[d] = "drain"
        /\ Len(req[d]) >= HeaderLen
        /\ U16At(req[d], 19) = 4
        /\ U16At(wbuf[d], 19) = 5

\* C28 (reply header constants): every reply carries the command id of the request
\* and the envelope error code 0, whatever error code the request header carried; a
\* symbol-not-found reply too has envelope error code 0 and reports the failure only
\* as result code 0x710 in its payload.
ReplyHeaderConstants ==
    [][\A c \in Conns :
          (Replied(c) /\ Len(rbuf[c]) >= HeaderLen)
          => /\ U16At(wbuf'[c], 17) = U16At(rbuf[c], 17)
             /\ U32At(wbuf'[c], 25) = 0
             /\ (/\ IsGetHandleRequest(rbuf[c])
                 /\ RequestedName(rbuf[c]) \notin SeedNames)
                => U32At(wbuf'[c], HeaderLen + 1) = 1808]_vars

\* C28 witness: a request carrying error code 0x12345678 and an unknown name was
\* answered symbol-not-found under envelope error code 0, and a request with the
\* unknown command id 0x0101 carrying that error code was answered under command id
\* 0x0101.
NotFoundUnderErrorZero ==
    \E c, d \in Conns :
        /\ pc[c] = "drain"
        /\ req[c] = Frame(PeerB, 9, GetHandlePayload(NameLowerCase))
        /\ U32At(req[c], 25) = 305419896
        /\ U32At(wbuf[c], 25) = 0
        /\ U32At(wbuf[c], HeaderLen + 1) = 1808
        /\ pc[d] = "drain"
        /\ req[d] = Frame(PeerB, 257, <<1, 2, 3>>)
        /\ U16At(wbuf[d], 17) = 257
        /\ U32At(wbuf[d], 25) = 0

\* the fields of a FINS memory area request, and what a write of it stores
FinsIsRead(data) == Len(data) >= 18 /\ data[11] = 1 /\ data[12] = 1

FinsIsWrite(data) == Len(data) >= 18 /\ data[11] = 1 /\ data[12] = 2

FinsAreaOf(data) == data[13]

FinsAddressOf(data) == 256 * data[14] + data[15]

FinsCountOf(data) == 256 * data[17] + data[18]

FinsValuesOf(data) == SubSeq(data, 19, Len(data))

FinsSuppliedOf(data) == Min(FinsCountOf(data), Len(FinsValuesOf(data)) \div 2)

\* write request w stores a word at (area, a)
FinsCovers(w, area, a) ==
    /\ FinsAreaOf(w) = area
    /\ a >= FinsAddressOf(w)
    /\ a < FinsAddressOf(w) + FinsSuppliedOf(w)

\* the end code and the words of a response
FinsEndCode(resp) == SubSeq(resp, 13, 14)

FinsWordsOf(resp) == SubSeq(resp, 15, Len(resp))

\* addresses looked at around the ranges the requests touch
FinsProbeAreas == {AreaDM, AreaCIO, AreaWR, AreaHR, 153}

FinsProbeAddresses == (0 .. 3) \cup (999 .. 1004) \cup {1099, 1100} \cup (65534 .. 65537)

\* C29 (FINS write/read round trip): a Memory Area Read that follows a Memory Area
\* Write of the same area, address and count whose payload carried all count words,
\* with no write in between, returns exactly those bytes with end code 00 00; a read
\* of an address that neither __init__ nor any earlier write stored to returns 0 for
\* it; a write changes the words it was supplied, at address, address + 1, ..., and
\* no other word, so that with fewer than count words supplied only those are
\* stored; a read changes no word.
FinsWriteReadRoundTrip ==
    /\ [](\A j \in 1 .. Len(fins_log) :
             FinsIsRead(fins_log[j].data)
             => LET rd == fins_log[j].data
                    resp == fins_log[j].response
                IN  /\ ~ fins_log[j].raised
                    /\ FinsEndCode(resp) = <<0, 0>>
                    /\ Len(FinsWordsOf(resp)) = 2 * FinsCountOf(rd)
                    /\ \A i \in 1 .. (j - 1) :
                          (/\ FinsIsWrite(fins_log[i].data)
                           /\ FinsAreaOf(fins_log[i].data) = FinsAreaOf(rd)
                           /\ FinsAddressOf(fins_log[i].data) = FinsAddressOf(rd)
                           /\ FinsCountOf(fins_log[i].data) = FinsCountOf(rd)
                           /\ FinsSuppliedOf(fins_log[i].data) = FinsCountOf(rd)
                           /\ \A k \in (i + 1) .. (j - 1) : ~ FinsIsWrite(fins_log[k].data))
                          => FinsWordsOf(resp) =
                                SubSeq(FinsValuesOf(fins_log[i].data), 1, 2 * FinsCountOf(rd))
                    /\ \A n \in 0 .. (FinsCountOf(rd) - 1) :
                          (/\ MemGet(InitialMemory, FinsAreaOf(rd), FinsAddressOf(rd) + n) = 0
                           /\ \A i \in 1 .. (j - 1) :
                                 FinsIsWrite(fins_log[i].data)
                                 => ~ FinsCovers(fins_log[i].data, FinsAreaOf(rd),
                                                 FinsAddressOf(rd) + n))
                          => SubSeq(FinsWordsOf(resp), 2 * n + 1, 2 * n + 2) = <<0, 0>>)
    /\ [][fins_log' # fins_log
          => LET data == fins_log'[Len(fins_log')].data
             IN  \A area \in FinsProbeAreas : \A a \in FinsProbeAddresses :
                    IF FinsIsWrite(data) /\ FinsCovers(data, area, a)
                    THEN MemGet(memory', area, a) =
                            FinsWord(FinsValuesOf(data), a - FinsAddressOf(data))
                    ELSE MemGet(memory', area, a) = MemGet(memory, area, a)]_vars

\* C29 witness: two words were written over pre-populated DM 1001..1002, a request
\* that is no write followed, and a read of DM 1001, count 2 returned the two words.
FinsReadBackAfterWrite ==
    /\ Len(fins_log) = 3
    /\ fins_log[1].data = FinsWrite(AreaDM, 1001, 2, <<171, 205, 1, 2>>)
    /\ FinsEndCode(fins_log[1].response) = <<0, 0>>
    /\ ~ FinsIsWrite(fins_log[2].data)
    /\ fins_log[3].data = FinsRead(AreaDM, 1001, 2)
    /\ FinsWordsOf(fins_log[3].response) = <<171, 205, 1, 2>>
    /\ memory[AreaDM][1000] = 0
    /\ memory[AreaDM][1003] = 3

====
